---- MODULE Spec2Model ----
(***************************************************************************)
(* The ChatRoom Durable Object (worker/src/ChatRoom.ts), its tool registry *)
(* (worker/src/tools.ts) and the viewer page (app/page.tsx).               *)
(*                                                                         *)
(* Scheduling.  JavaScript runs a handler to its next await.  The Durable  *)
(* Object runtime delivers no other event while a handler awaits a storage *)
(* operation (input gate), but it does deliver events while a handler      *)
(* awaits the model call, a read of the response stream or a tool's timer. *)
(* The variable gate names the handler that is inside such an undivided    *)
(* stretch; 0 means that any event may be delivered.                       *)
(*                                                                         *)
(* The object accepts its sockets with state.acceptWebSocket, so the       *)
(* runtime may evict it while it is idle and keep the sockets open; the    *)
(* next event then runs the constructor again (action Restart).            *)
(***************************************************************************)
EXTENDS Naturals, Sequences, FiniteSets, TLC

\* ---------------------------------------------------------------- bounds
\* CONFIG.MAX_ITERATIONS, the round ceiling N; 10 in ChatRoom.ts:30, scaled
\* down here (every property below is stated for N, not for a number)
MAX_ITERATIONS == 2
\* number of `message` frames the session handles in one behaviour
MaxTurns == 2
\* number of `reset` frames the session handles in one behaviour
MaxResets == 1
\* number of evictions (constructor re-runs) in one behaviour
MaxRestarts == 1
\* number of events (text deltas, tool calls) the model streams in one behaviour
MaxStreamEvents == 2

\* number of failures (a viewer's socket breaking, a failed model call, a
\* failed read of the model's stream, a client frame that is not a `message`
\* or `reset` frame) in one behaviour
MaxFaults == 1

\* number of inputs of all these kinds together (message frames, reset frames,
\* evictions, stream events, failures) in one behaviour
MaxInputs == 5

\* number of pieces (a text delta, a tool call, a stop line, a malformed line)
\* of a model stream that is decoded byte by byte
MaxSegments == 3
\* largest number of bytes one read of the stream returns
MaxChunk == 5

\* the operands of a followed validate_sum call are 0..MaxOperand
MaxOperand == 2

Viewers == {"v1", "v2"}
Handlers == 1..MaxTurns

\* ------------------------------------------------- content blocks, messages
NoResult == <<>>

TextBlock(t) == [type |-> "text", text |-> t]

\* a tool_use block of the log (ChatRoom.ts:292-298): status is set, result not
ToolBlock(tu) ==
  [type |-> "tool_use", id |-> tu.id, name |-> tu.name, input |-> tu.input,
   status |-> "running", result |-> NoResult]

\* a tool_use block of the history sent to the model (ChatRoom.ts:435-440)
HistToolUse(tu) ==
  [type |-> "tool_use", id |-> tu.id, name |-> tu.name, input |-> tu.input]

ToolResult(id, c) == [type |-> "tool_result", tool_use_id |-> id, content |-> c]

Message(id, role, content) == [id |-> id, role |-> role, content |-> content]

\* what the user types; what the model streams
UserText == <<"q">>
Delta == "Hi"
APOLOGY == <<"Sorry, I encountered an error processing your request.">>

\* the tool calls the model may request in a round; the ids are the model's,
\* and two calls may carry the same id
ToolCalls ==
  { [id |-> "t1", name |-> "calculator", input |-> [operation |-> "add", a |-> 7, b |-> 5]],
    [id |-> "t2", name |-> "calculator", input |-> [operation |-> "pow", a |-> 7, b |-> 5]],
    [id |-> "t1", name |-> "nosuch", input |-> [operation |-> "add", a |-> 7, b |-> 5]],
    [id |-> "t2", name |-> "validate_sum", input |-> [a |-> 7, b |-> 5, expected_result |-> 12]] }

StopReasons == {"end_turn", "tool_use"}

\* ------------------------------------------------------------ tools.ts
REGISTRY == {"calculator", "validate_sum"}

\* calculatorTool.execute: the result string, or the message of the Error
calculatorExecute(input) ==
  IF input.operation = "add"
    THEN [ok |-> TRUE, val |-> <<"The result of", input.a, "add", input.b, "is", input.a + input.b>>]
  ELSE IF input.operation = "multiply"
    THEN [ok |-> TRUE, val |-> <<"The result of", input.a, "multiply", input.b, "is", input.a * input.b>>]
  ELSE [ok |-> FALSE, val |-> <<"Unknown operation: ", input.operation>>]

\* validateSumTool.execute: the verdict string
validateSumExecute(input) ==
  IF input.a + input.b = input.expected_result
    THEN [ok |-> TRUE, val |-> <<"Validation passed", input.a, input.b, input.expected_result>>]
    ELSE [ok |-> TRUE, val |-> <<"Validation failed", input.a, input.b, input.a + input.b, input.expected_result>>]

\* validateSumTool.execute, tools.ts:108-113: the four sub-tasks
SubTaskIds == <<"step1", "step2", "step3", "step4">>

\* tools.ts:116-135: the copy of subTasks handed to onProgress at its k-th
\* call, counted from 0: all pending first, then each step in turn running
\* and, after its timer, complete
Snapshot(k) ==
  [j \in 1..Len(SubTaskIds) |->
     [id |-> SubTaskIds[j],
      status |-> IF 2 * j <= k THEN "complete"
                 ELSE IF 2 * j - 1 = k THEN "running" ELSE "pending"]]

\* tools.ts:108-113: all four pending
initialSubTasks == [j \in 1..Len(SubTaskIds) |-> [id |-> SubTaskIds[j], status |-> "pending"]]

\* tools.ts:123: subTasks[i].status = "running"
markRunning(subTasks, i) == [subTasks EXCEPT ![i].status = "running"]

\* a step that is left as it is when its timer has fired
markCompleteSkipped(subTasks, i) == subTasks

\* tools.ts:132: subTasks[i].status = "complete"
markComplete(subTasks, i) == [subTasks EXCEPT ![i].status = "complete"]

\* tools.ts:116-118, 124-126, 133-135: if (onProgress) onProgress([...subTasks]);
\* reported is what the callback has been handed so far, each entry as it
\* was at the call
onProgress(reported, cb, subTasks) == IF cb THEN Append(reported, subTasks) ELSE reported

\* every snapshot validate_sum hands to an onProgress callback, in order; the
\* callback is optional (tools.ts:116, 124, 133) and executeTools passes none
\* (ChatRoom.ts:310)
validateSumSnapshots == [k \in 1..(2 * Len(SubTaskIds) + 1) |-> Snapshot(k - 1)]

\* executeTool: ok with the tool's string, or not ok with the Error's message
executeTool(name, input) ==
  IF name \notin REGISTRY
    THEN [ok |-> FALSE, val |-> <<"Unknown tool: ", name>>]
  ELSE LET r == IF name = "calculator" THEN calculatorExecute(input)
                                       ELSE validateSumExecute(input)
       IN IF r.ok THEN r
          ELSE [ok |-> FALSE, val |-> <<"Error executing tool: ", r.val>>]

\* does awaiting executeTool give other events a chance to run?  Both tools of
\* the registry wait on a timer before they return or throw; an unknown name
\* throws before any timer is set.
ToolAwaitsTimer(name) == name \in REGISTRY

\* ------------------------------------------------------------- the log
FindIndex(msgs, id) ==
  IF \E i \in 1..Len(msgs) : msgs[i].id = id
    THEN CHOOSE i \in 1..Len(msgs) : msgs[i].id = id /\ \A j \in 1..(i-1) : msgs[j].id # id
    ELSE 0

SetContent(msgs, i, c) == [msgs EXCEPT ![i].content = c]

\* Array.prototype.findIndex over the blocks of a message, by tool-use id
FindToolBlock(content, id) ==
  IF \E i \in 1..Len(content) : content[i].type = "tool_use" /\ content[i].id = id
    THEN CHOOSE i \in 1..Len(content) :
           /\ content[i].type = "tool_use" /\ content[i].id = id
           /\ \A j \in 1..(i-1) : ~(content[j].type = "tool_use" /\ content[j].id = id)
    ELSE 0

\* processStreamingResponse, text delta: extend the last block if it is a text
\* block (its text becomes the round's whole text), else open a new text block
appendText(content, textContent) ==
  IF Len(content) > 0 /\ content[Len(content)].type = "text"
    THEN [content EXCEPT ![Len(content)] = TextBlock(textContent)]
    ELSE Append(content, TextBlock(textContent))

\* executeTools, after the tool returned or threw: the block found by id gets
\* its status (and, on success only, its result)
\* a resolution that also files the tool_result in the message
resolveToolUseWithResult(content, id, r) ==
  LET i == FindToolBlock(content, id) IN
  IF i = 0 THEN content
  ELSE Append([content EXCEPT ![i].status = IF r.ok THEN "complete" ELSE "error"],
              ToolResult(id, r.val))

resolveToolUse(content, id, r) ==
  LET i == FindToolBlock(content, id) IN
  IF i = 0 THEN content
  ELSE IF r.ok THEN [content EXCEPT ![i].status = "complete", ![i].result = r.val]
  ELSE [content EXCEPT ![i].status = "error"]

\* the content of the tool_result pushed for the next round
resultContent(r) == IF r.ok THEN r.val ELSE <<"Error: ", r.val>>

\* a saveMessages that does not write: the record stays as it was
saveMessagesSkipped(msgs, st) == st

\* saveMessages: state.storage.put("messages", this.messages)
saveMessages(msgs, st) == msgs

RECURSIVE FilterHistory(_, _)
FilterHistory(msgs, excludeId) ==
  IF msgs = <<>> THEN <<>>
  ELSE LET m == Head(msgs) IN
       IF m.id # excludeId /\ Len(m.content) > 0
         THEN <<[role |-> m.role, content |-> m.content]>> \o FilterHistory(Tail(msgs), excludeId)
         ELSE FilterHistory(Tail(msgs), excludeId)

\* a history that keeps the messages without content
getConversationHistoryKeepEmpty(msgs, excludeId) ==
  LET keep == SelectSeq(msgs, LAMBDA m : m.id # excludeId)
  IN [k \in 1..Len(keep) |-> [role |-> keep[k].role, content |-> keep[k].content]]

getConversationHistory(msgs, excludeId) == FilterHistory(msgs, excludeId)

RECURSIVE MapHistToolUse(_)
MapHistToolUse(tus) ==
  IF tus = <<>> THEN <<>> ELSE <<HistToolUse(Head(tus))>> \o MapHistToolUse(Tail(tus))

\* getAIResponse, lines 430-441: the assistant turn added to the history
assistantContent(textContent, tus) ==
  (IF textContent # <<>> THEN <<TextBlock(textContent)>> ELSE <<>>) \o MapHistToolUse(tus)


\* ------------------------------------------------------- frames, viewers
NoMsg == Message(0, "none", <<>>)

Frame(type, msgs, msg, id, content, it, tot) ==
  [type |-> type, messages |-> msgs, message |-> msg, messageId |-> id,
   content |-> content, iteration |-> it, totalIterations |-> tot]

InitFrame(msgs) == Frame("init", msgs, NoMsg, 0, <<>>, 0, 0)
MessageFrame(m) == Frame("message", <<>>, m, 0, <<>>, 0, 0)
\* iteration / totalIterations 0: the key is absent from the frame
UpdateFrame(id, c, it) == Frame("update", <<>>, NoMsg, id, c, it, 0)
CompleteFrame(id, c, it, tot) == Frame("complete", <<>>, NoMsg, id, c, it, tot)
ErrorFrame(id, c) == Frame("error", <<>>, NoMsg, id, c, 0, 0)
ResetFrame == Frame("reset", <<>>, NoMsg, 0, <<>>, 0, 0)
\* lines 129-132: {type: "error", error: "Failed to process message"}, sent
\* to the sender of a frame that could not be handled; no messageId, no content
ProcessErrorFrame == Frame("error", <<>>, NoMsg, 0, <<>>, 0, 0)

\* the frames sent with broadcast (init and the error of lines 129-132 are
\* sent to one socket with ws.send)
IsBroadcast(f) == f.type \notin {"none", "init"} /\ f # ProcessErrorFrame

NoFrame == [f |-> Frame("none", <<>>, NoMsg, 0, <<>>, 0, 0), to |-> {}, before |-> <<>>]

\* page.tsx ws.onmessage: the viewer's copy of the log after one frame
onmessage(prev, f) ==
  IF f.type = "init" THEN f.messages
  ELSE IF f.type = "message"
    THEN IF FindIndex(prev, f.message.id) # 0 THEN prev ELSE Append(prev, f.message)
  ELSE IF f.type \in {"update", "complete", "error"}
    THEN LET i == FindIndex(prev, f.messageId) IN
         IF i # 0 THEN SetContent(prev, i, f.content) ELSE prev
  ELSE IF f.type = "reset" THEN <<>>
  ELSE prev

\* page.tsx ws.onmessage: the viewer's isLoading flag after one frame
onmessageLoading(l, f) ==
  IF f.type = "message" THEN (l \/ f.message.role = "assistant")
  ELSE IF f.type \in {"complete", "error", "reset"} THEN FALSE
  ELSE l

\* broadcast: walk the Set in insertion order; a send that throws removes that
\* session and the walk goes on
RECURSIVE broadcastFrom(_, _, _, _)
broadcastFrom(rest, kept, to, c) ==
  IF rest = <<>> THEN [sessions |-> kept, to |-> to]
  ELSE IF c[Head(rest)] = "open"
    THEN broadcastFrom(Tail(rest), Append(kept, Head(rest)), to \cup {Head(rest)}, c)
    ELSE broadcastFrom(Tail(rest), kept, to, c)

\* a broadcast without the try/catch of lines 519-524: the first send that
\* throws ends the walk, nothing is removed
RECURSIVE sendUntilThrow(_, _, _)
sendUntilThrow(rest, to, c) ==
  IF rest = <<>> \/ c[Head(rest)] # "open" THEN to
  ELSE sendUntilThrow(Tail(rest), to \cup {Head(rest)}, c)

broadcastNoCatch(sess, c) == [sessions |-> sess, to |-> sendUntilThrow(sess, {}, c)]

broadcast(sess, c) == broadcastFrom(sess, <<>>, {}, c)

RECURSIVE Without(_, _)
Without(s, x) ==
  IF s = <<>> THEN <<>>
  ELSE IF Head(s) = x THEN Without(Tail(s), x) ELSE <<Head(s)>> \o Without(Tail(s), x)

Range(s) == {s[i] : i \in 1..Len(s)}

\* ------------------------------------- the model's stream and its decoder
\* The lines of the server-sent-event stream, as the JSON of their data field
LText(t) == [kind |-> "text_delta", text |-> t, id |-> "", name |-> ""]
LToolStart(id, name) == [kind |-> "tool_start", text |-> "", id |-> id, name |-> name]
LInput(frag) == [kind |-> "input_json_delta", text |-> frag, id |-> "", name |-> ""]
LBlockStop == [kind |-> "content_block_stop", text |-> "", id |-> "", name |-> ""]
LMsgDelta(r) == [kind |-> "message_delta", text |-> r, id |-> "", name |-> ""]
LMsgStop == [kind |-> "message_stop", text |-> "", id |-> "", name |-> ""]
\* a data line whose payload is not JSON
LBad == [kind |-> "malformed", text |-> "", id |-> "", name |-> ""]
\* a line without the "data: " prefix (an "event: ..." line, a blank line)
LEvent == [kind |-> "no_data_prefix", text |-> "", id |-> "", name |-> ""]

\* what the model may stream, piece by piece
Segment(n) ==
  CASE n = "text1" -> <<LEvent, LText("Hi")>>
    [] n = "text2" -> <<LText(" there")>>
    [] n = "toolGood" -> <<LToolStart("t1", "calculator"), LInput("F1"), LInput("F2"), LBlockStop>>
    [] n = "toolCut" -> <<LToolStart("t2", "calculator"), LInput("F1"), LBlockStop>>
    [] n = "stopDelta" -> <<LMsgDelta("tool_use")>>
    [] n = "msgStop" -> <<LMsgStop>>
    [] n = "bad" -> <<LBad>>
    [] n = "toolBad" -> <<LToolStart("t1", "calculator"), LInput("F1"), LBad, LInput("F2"), LBlockStop>>

SegmentNames ==
  {"text1", "text2", "toolGood", "toolCut", "stopDelta", "msgStop", "bad", "toolBad"}

\* JSON.parse of the concatenated input fragments: F1 F2 is the text of
\* {"operation":"add","a":7,"b":5}; every other concatenation is not JSON
JSONparse(frags) ==
  IF frags = <<"F1", "F2">>
    THEN [ok |-> TRUE, val |-> [operation |-> "add", a |-> 7, b |-> 5]]
    ELSE [ok |-> FALSE, val |-> <<>>]

\* the bytes of a line: a first character of two bytes, the rest of the
\* line, the newline
NL == [b |-> "nl", l |-> LEvent]
EncodeLine(l) == <<[b |-> "lead", l |-> l], [b |-> "cont", l |-> l], [b |-> "rest", l |-> l], NL>>

RECURSIVE EncodeLines(_)
EncodeLines(ls) == IF ls = <<>> THEN <<>> ELSE EncodeLine(Head(ls)) \o EncodeLines(Tail(ls))

RECURSIVE SegmentsLines(_)
SegmentsLines(ns) == IF ns = <<>> THEN <<>> ELSE Segment(Head(ns)) \o SegmentsLines(Tail(ns))

\* a character that is no byte sequence of the stream's text (U+FFFD)
Replacement == [c |-> "replacement", l |-> LEvent]
NoByte == [b |-> "none", l |-> LEvent]

\* TextDecoder.decode(value, {stream: true}): a lead byte at the end of the
\* chunk is kept until its continuation byte arrives
RECURSIVE decodeFrom(_, _, _)
decodeFrom(pending, bytes, chars) ==
  IF bytes = <<>> THEN [chars |-> chars, pending |-> pending]
  ELSE LET x == Head(bytes) IN
       IF pending # NoByte
         THEN IF x.b = "cont" /\ x.l = pending.l
                THEN decodeFrom(NoByte, Tail(bytes), Append(chars, [c |-> "head", l |-> x.l]))
                ELSE decodeFrom(NoByte, bytes, Append(chars, Replacement))
       ELSE IF x.b = "lead" THEN decodeFrom(x, Tail(bytes), chars)
       ELSE IF x.b = "cont" THEN decodeFrom(NoByte, Tail(bytes), Append(chars, Replacement))
       ELSE IF x.b = "rest" THEN decodeFrom(NoByte, Tail(bytes), Append(chars, [c |-> "tail", l |-> x.l]))
       ELSE decodeFrom(NoByte, Tail(bytes), Append(chars, [c |-> "nl", l |-> LEvent]))

decode(pending, bytes) == decodeFrom(pending, bytes, <<>>)

\* String.prototype.split("\n"): the pieces between the newlines, the last
\* piece being what follows the last newline
RECURSIVE splitFrom(_, _, _)
splitFrom(chars, cur, parts) ==
  IF chars = <<>> THEN Append(parts, cur)
  ELSE IF Head(chars).c = "nl" THEN splitFrom(Tail(chars), <<>>, Append(parts, cur))
  ELSE splitFrom(Tail(chars), Append(cur, Head(chars)), parts)

split(chars) == splitFrom(chars, <<>>, <<>>)

\* a decoder that forgets what follows the last newline of a chunk
remainderDropped(parts) == <<>>

\* line 204: buffer = lines.pop() || ""
remainder(parts) == parts[Len(parts)]

\* lines 207-213: the JSON of a line that starts with "data: " and parses
parseLine(chars) ==
  IF Len(chars) = 2 /\ chars[1].c = "head" /\ chars[2].c = "tail" /\ chars[1].l = chars[2].l
       /\ chars[1].l.kind \notin {"malformed", "no_data_prefix"}
    THEN [ok |-> TRUE, val |-> chars[1].l]
    ELSE [ok |-> FALSE, val |-> LEvent]

\* a decoder that puts each fragment in front of the ones it has
concatInputPrepended(acc, frag) == <<frag>> \o acc

\* line 248: toolInput += partial_json
concatInput(acc, frag) == Append(acc, frag)

NoToolUse == [id |-> "", name |-> ""]

\* the locals of processStreamingResponse (lines 185-191) with the content
\* of the message and the update events sent
DecoderStart(content) ==
  [pending |-> NoByte, buffer |-> <<>>, textContent |-> <<>>, toolUses |-> <<>>,
   currentToolUse |-> NoToolUse, toolInput |-> <<>>, stopReason |-> "null",
   content |-> content, updates |-> <<>>]

\* a line that cannot be used also ends the tool call being collected
skipLineEndsToolUse(st) == [st EXCEPT !.currentToolUse = NoToolUse, !.toolInput = <<>>]

\* lines 207, 210 and 268-272: a line without the prefix, without data or
\* with data that is not JSON changes no local: continue, or the catch
\* block, which only logs
skipLine(st) == st

\* lines 206-273: one line of the stream
processLine(st, chars) ==
  LET p == parseLine(chars)
      e == p.val
  IN IF ~p.ok THEN skipLine(st)
     ELSE IF e.kind = "text_delta"
       THEN LET t == Append(st.textContent, e.text)
                c == appendText(st.content, t)
            IN [st EXCEPT !.textContent = t, !.content = c, !.updates = Append(@, c)]
     ELSE IF e.kind = "tool_start"
       THEN [st EXCEPT !.currentToolUse = [id |-> e.id, name |-> e.name], !.toolInput = <<>>]
     ELSE IF e.kind = "input_json_delta"
       THEN [st EXCEPT !.toolInput = concatInput(@, e.text)]
     ELSE IF e.kind = "content_block_stop" /\ st.currentToolUse # NoToolUse
       THEN LET j == JSONparse(st.toolInput) IN
            [st EXCEPT !.toolUses = IF j.ok THEN Append(@, [id |-> st.currentToolUse.id,
                                                            name |-> st.currentToolUse.name,
                                                            input |-> j.val])
                                            ELSE @,
                       !.currentToolUse = NoToolUse, !.toolInput = <<>>]
     ELSE IF e.kind = "message_stop" THEN [st EXCEPT !.stopReason = "end_turn"]
     ELSE IF e.kind = "message_delta" THEN [st EXCEPT !.stopReason = e.text]
     ELSE st

RECURSIVE processLines(_, _)
processLines(st, lines) ==
  IF lines = <<>> THEN st ELSE processLines(processLine(st, Head(lines)), Tail(lines))

\* lines 199-274: one chunk returned by reader.read()
onChunk(st, chunk) ==
  LET d == decode(st.pending, chunk)
      parts == split(st.buffer \o d.chars)
      st1 == [st EXCEPT !.pending = d.pending, !.buffer = remainder(parts)]
  IN processLines(st1, SubSeq(parts, 1, Len(parts) - 1))

\* executeTools without its awaits (lines 290-361): the blocks pushed and
\* resolved, the tool results
RECURSIVE executeAll(_, _, _)
executeAll(content, tus, results) ==
  IF tus = <<>> THEN [content |-> content, results |-> results]
  ELSE LET tu == Head(tus)
           r == executeTool(tu.name, tu.input)
           c == resolveToolUse(Append(content, ToolBlock(tu)), tu.id, r)
       IN executeAll(c, Tail(tus), Append(results, ToolResult(tu.id, resultContent(r))))

\* ------------------------------------------------------------- the state
VARIABLES
  messages,   \* this.messages
  stored,     \* the record "messages" of state.storage
  sessions,   \* this.sessions, a Set: insertion-ordered, no duplicates
  conn,       \* per viewer: "none", "open", or "dead" (socket gone, the
              \* webSocketClose / webSocketError event not delivered yet)
  view,       \* per viewer: the page's messages state
  isLoading,  \* per viewer: the page's isLoading state
  gate,       \* 0, or the handler running an undivided stretch
  loop,       \* per `message` frame: the locals of its webSocketMessage /
              \* getAIResponse invocation
  nextId,     \* stands for crypto.randomUUID(): the next fresh message id
  resets,     \* reset frames handled so far
  restarts,   \* constructor re-runs so far
  events,     \* text deltas and tool calls streamed so far
  faults,     \* failures so far
  lastFrame,  \* the frame sent by the step just taken, with its receivers
              \* and the session Set before the send; NoFrame otherwise
  dec,        \* one call of processStreamingResponse followed at the level of
              \* the bytes of the model's stream: the stream, how far it has
              \* been read, the locals of the call
  val         \* one call of validateSumTool.execute followed from timer to
              \* timer: its input, its locals, what its callback was handed

vars == <<messages, stored, sessions, conn, view, isLoading, gate, loop,
          nextId, resets, restarts, events, faults, lastFrame, dec, val>>

\* the variables of the session
sessionVars == <<messages, stored, sessions, conn, view, isLoading, gate, loop,
                 nextId, resets, restarts, events, faults, lastFrame>>

ResetGate == MaxTurns + 1

NoLoop ==
  [pc |-> "unused", msgId |-> 0, iter |-> 0, reqs |-> 0, midx |-> 0,
   text |-> <<>>, toolUses |-> <<>>, ti |-> 0, results |-> <<>>,
   stop |-> "none", hist |-> <<>>]

\* a finished invocation: its locals are gone (msgId stays, to name the turn)
Done(l) == [NoLoop EXCEPT !.pc = "done", !.msgId = l.msgId]

\* no stream is followed byte by byte
NoDec ==
  [phase |-> "idle", segs |-> <<>>, bytes |-> <<>>, pos |-> 0, cut |-> FALSE,
   st |-> DecoderStart(<<>>), results |-> <<>>]

\* no call of validate_sum is followed
NoVal ==
  [pc |-> "idle", input |-> [a |-> 0, b |-> 0, expected_result |-> 0], cb |-> FALSE,
   subTasks |-> <<>>, i |-> 0, reported |-> <<>>, result |-> NoResult]

InitSession ==
  /\ messages = <<>>
  /\ stored = <<>>
  /\ sessions = <<>>
  /\ conn = [v \in Viewers |-> "none"]
  /\ view = [v \in Viewers |-> <<>>]
  /\ isLoading = [v \in Viewers |-> FALSE]
  /\ gate = 0
  /\ loop = [h \in Handlers |-> NoLoop]
  /\ nextId = 1
  /\ resets = 0
  /\ restarts = 0
  /\ events = 0
  /\ faults = 0
  /\ lastFrame = NoFrame

Init == InitSession /\ dec = NoDec /\ val = NoVal

\* the inputs taken so far
Spent ==
  Cardinality({h \in Handlers : loop[h].pc # "unused"}) + resets + restarts + events + faults

InProgress(h) == loop[h].pc \notin {"unused", "done"}
Idle == gate = 0 /\ \A h \in Handlers : ~InProgress(h)

\* the step sends frame f to every session
DoBroadcast(f) ==
  LET r == broadcast(sessions, conn) IN
  /\ sessions' = r.sessions
  /\ view' = [v \in Viewers |-> IF v \in r.to THEN onmessage(view[v], f) ELSE view[v]]
  /\ isLoading' = [v \in Viewers |-> IF v \in r.to THEN onmessageLoading(isLoading[v], f)
                                                   ELSE isLoading[v]]
  /\ lastFrame' = [f |-> f, to |-> r.to, before |-> sessions]

NoBroadcast ==
  /\ UNCHANGED <<sessions, view, isLoading>>
  /\ lastFrame' = NoFrame

\* ---------------------------------------------------- fetch (viewer attach)
Attach(v) ==
  /\ gate = 0
  /\ conn[v] = "none"
  /\ conn' = [conn EXCEPT ![v] = "open"]
  /\ sessions' = Append(sessions, v)
  /\ view' = [view EXCEPT ![v] = onmessage(view[v], InitFrame(messages))]
  /\ lastFrame' = [f |-> InitFrame(messages), to |-> {v}, before |-> sessions']
  /\ UNCHANGED <<messages, stored, isLoading, gate, loop, nextId, resets, restarts, events, faults, dec, val>>

\* the viewer's socket breaks or the page goes away
Die(v) ==
  /\ faults < MaxFaults
  /\ Spent < MaxInputs
  /\ faults' = faults + 1
  /\ gate = 0
  /\ conn[v] = "open"
  /\ conn' = [conn EXCEPT ![v] = "dead"]
  /\ view' = [view EXCEPT ![v] = <<>>]
  /\ isLoading' = [isLoading EXCEPT ![v] = FALSE]
  /\ lastFrame' = NoFrame
  /\ UNCHANGED <<messages, stored, sessions, gate, loop, nextId, resets, restarts, events, dec, val>>

\* webSocketClose / webSocketError
webSocketClose(v) ==
  /\ gate = 0
  /\ conn[v] = "dead"
  /\ conn' = [conn EXCEPT ![v] = "none"]
  /\ sessions' = Without(sessions, v)
  /\ lastFrame' = NoFrame
  /\ UNCHANGED <<messages, stored, view, isLoading, gate, loop, nextId, resets, restarts, events, faults, dec, val>>

\* constructor, lines 51-54: this.messages = stored || []
restore(st) == st

\* eviction while idle, then the constructor: a fresh object whose log is the
\* stored record and whose session Set is empty; the sockets stay open
Restart ==
  /\ Idle
  /\ restarts < MaxRestarts
  /\ Spent < MaxInputs
  /\ restarts' = restarts + 1
  /\ messages' = restore(stored)
  /\ sessions' = <<>>
  /\ lastFrame' = NoFrame
  /\ UNCHANGED <<stored, conn, view, isLoading, gate, loop, nextId, resets, events, faults, dec, val>>


\* --------------------------------- webSocketMessage, a frame it cannot handle
\* the client frames that are neither a `message` nor a `reset` frame: text
\* that is not JSON, JSON with another type
BadFrames == {"notJSON", "otherType"}

\* a catch block that broadcasts its error frame
errorReceiversAll(v) == {w \in Viewers : conn[w] = "open"}

\* line 129: ws.send, to the socket the frame came from
errorReceivers(v) == {v}

\* lines 83-86 and 127-133: JSON.parse throws and the catch block answers the
\* sender; or the type matches neither branch and the handler returns
RecvBadFrame(v, k) ==
  /\ gate = 0
  /\ conn[v] = "open"
  /\ faults < MaxFaults
  /\ Spent < MaxInputs
  /\ faults' = faults + 1
  /\ IF k = "notJSON"
       THEN LET to == errorReceivers(v) IN
            /\ view' = [w \in Viewers |-> IF w \in to THEN onmessage(view[w], ProcessErrorFrame)
                                                      ELSE view[w]]
            /\ isLoading' = [w \in Viewers |->
                                IF w \in to THEN onmessageLoading(isLoading[w], ProcessErrorFrame)
                                            ELSE isLoading[w]]
            /\ lastFrame' = [f |-> ProcessErrorFrame, to |-> to, before |-> sessions]
       ELSE /\ UNCHANGED <<view, isLoading>>
            /\ lastFrame' = NoFrame
  /\ UNCHANGED <<messages, stored, sessions, conn, gate, loop, nextId, resets, restarts, events, dec, val>>

\* ------------------------------------------- webSocketMessage, type "message"
FreeHandler(h) ==
  /\ loop[h].pc = "unused"
  /\ \A g \in Handlers : g < h => loop[g].pc # "unused"

\* a catch block that pushes the apology after the blocks already there
errorContentAppended(c) == Append(c, TextBlock(APOLOGY))

\* lines 489-492: the content that replaces content c of the failed message
errorContent(c) == <<TextBlock(APOLOGY)>>

\* getAIResponse's catch block, entered by handler h: the apology replaces the
\* content of its message, if the log still holds it, and is saved
Catch(h) ==
  LET i == FindIndex(messages, loop[h].msgId) IN
  IF i # 0
    THEN /\ messages' = SetContent(messages, i, errorContent(messages[i].content))
         /\ stored' = saveMessages(messages', stored)
         /\ loop' = [loop EXCEPT ![h] = [NoLoop EXCEPT !.pc = "bcastError",
                                                        !.msgId = loop[h].msgId]]
         /\ gate' = h
    ELSE /\ UNCHANGED <<messages, stored>>
         /\ loop' = [loop EXCEPT ![h] = Done(loop[h])]
         /\ gate' = 0

\* page.tsx sendMessage, then ChatRoom.ts:88-96: push the user message, save
RecvMessage(v, h) ==
  /\ gate = 0
  /\ conn[v] = "open"
  /\ ~isLoading[v]
  /\ FreeHandler(h)
  /\ Spent < MaxInputs
  /\ messages' = Append(messages, Message(nextId, "user", <<TextBlock(UserText)>>))
  /\ stored' = saveMessages(messages', stored)
  /\ nextId' = nextId + 1
  /\ isLoading' = [isLoading EXCEPT ![v] = TRUE]
  /\ loop' = [loop EXCEPT ![h].pc = "bcastUser"]
  /\ gate' = h
  /\ lastFrame' = NoFrame
  /\ UNCHANGED <<sessions, conn, view, resets, restarts, events, faults, dec, val>>

\* ChatRoom.ts:99-102
BcastUser(h) ==
  /\ gate = h
  /\ loop[h].pc = "bcastUser"
  /\ DoBroadcast(MessageFrame(messages[Len(messages)]))
  /\ loop' = [loop EXCEPT ![h].pc = "placeholder"]
  /\ UNCHANGED <<messages, stored, conn, gate, nextId, resets, restarts, events, faults, dec, val>>

\* ChatRoom.ts:105-107
Placeholder(h) ==
  /\ gate = h
  /\ loop[h].pc = "placeholder"
  /\ messages' = Append(messages, Message(nextId, "assistant", <<>>))
  /\ stored' = saveMessages(messages', stored)
  /\ nextId' = nextId + 1
  /\ loop' = [loop EXCEPT ![h].pc = "bcastPh", ![h].msgId = nextId]
  /\ NoBroadcast
  /\ UNCHANGED <<conn, gate, resets, restarts, events, faults, dec, val>>

\* ChatRoom.ts:110-116 and getAIResponse up to the first await (line 375):
\* broadcast the placeholder, take the history, send the first model request
BcastPlaceholder(h) ==
  /\ gate = h
  /\ loop[h].pc = "bcastPh"
  /\ DoBroadcast(MessageFrame(messages[Len(messages)]))
  /\ loop' = [loop EXCEPT ![h].pc = "fetch", ![h].iter = 1, ![h].reqs = 1,
                          ![h].hist = getConversationHistory(messages, loop[h].msgId)]
  /\ gate' = 0
  /\ UNCHANGED <<messages, stored, conn, nextId, resets, restarts, events, faults, dec, val>>

\* the model answers 2xx; processStreamingResponse runs to its first read
FetchOk(h) ==
  /\ gate = 0
  /\ loop[h].pc = "fetch"
  /\ LET i == FindIndex(messages, loop[h].msgId) IN
     IF i = 0
       THEN /\ loop' = [loop EXCEPT ![h].pc = "saveStream", ![h].text = <<>>,
                                    ![h].toolUses = <<>>, ![h].stop = "none"]
            /\ gate' = h
       ELSE /\ loop' = [loop EXCEPT ![h].pc = "stream", ![h].midx = i, ![h].text = <<>>,
                                    ![h].toolUses = <<>>, ![h].stop = "none"]
            /\ gate' = 0
  /\ NoBroadcast
  /\ UNCHANGED <<messages, stored, conn, nextId, resets, restarts, events, faults, dec, val>>

\* the model call fails: fetch rejects, or the response is not ok (line 392-396)
FetchFail(h) ==
  /\ faults < MaxFaults
  /\ Spent < MaxInputs
  /\ faults' = faults + 1
  /\ gate = 0
  /\ loop[h].pc = "fetch"
  /\ Catch(h)
  /\ NoBroadcast
  /\ UNCHANGED <<conn, nextId, resets, restarts, events, dec, val>>

\* a line with a text delta (lines 216-237)
StreamText(h) ==
  /\ gate = 0
  /\ loop[h].pc = "stream"
  /\ events < MaxStreamEvents
  /\ Spent < MaxInputs
  /\ events' = events + 1
  /\ LET l == loop[h]
         t == Append(l.text, Delta)
     IN /\ loop' = [loop EXCEPT ![h].text = t]
        /\ IF l.midx <= Len(messages)
             THEN LET c == appendText(messages[l.midx].content, t) IN
                  /\ messages' = SetContent(messages, l.midx, c)
                  /\ DoBroadcast(UpdateFrame(l.msgId, c, l.iter))
             \* this.messages[messageIndex] is undefined: the TypeError is
             \* swallowed by the catch of line 269
             ELSE /\ UNCHANGED messages
                  /\ NoBroadcast
  /\ UNCHANGED <<stored, conn, gate, nextId, resets, restarts, faults, dec, val>>

\* the lines of one tool call whose input parses (lines 239-264)
StreamTool(h, tu) ==
  /\ gate = 0
  /\ loop[h].pc = "stream"
  /\ events < MaxStreamEvents
  /\ Spent < MaxInputs
  /\ events' = events + 1
  /\ loop' = [loop EXCEPT ![h].toolUses = Append(loop[h].toolUses, tu)]
  /\ NoBroadcast
  /\ UNCHANGED <<messages, stored, conn, gate, nextId, resets, restarts, faults, dec, val>>

\* the lines of one tool call whose input does not parse (lines 259-261)
StreamBadTool(h) ==
  /\ gate = 0
  /\ loop[h].pc = "stream"
  /\ events < MaxStreamEvents
  /\ Spent < MaxInputs
  /\ events' = events + 1
  /\ UNCHANGED loop
  /\ NoBroadcast
  /\ UNCHANGED <<messages, stored, conn, gate, nextId, resets, restarts, faults, dec, val>>

\* the rest of the stream: message_delta / message_stop lines that leave
\* stopReason = r (lines 266-268), then reader.read() reports done
StreamDone(h, r) ==
  /\ gate = 0
  /\ loop[h].pc = "stream"
  /\ loop' = [loop EXCEPT ![h].pc = "saveStream", ![h].stop = r]
  /\ gate' = h
  /\ NoBroadcast
  /\ UNCHANGED <<messages, stored, conn, nextId, resets, restarts, events, faults, dec, val>>

\* reader.read() rejects: the connection to the model breaks mid-stream
ReadFail(h) ==
  /\ faults < MaxFaults
  /\ Spent < MaxInputs
  /\ faults' = faults + 1
  /\ gate = 0
  /\ loop[h].pc = "stream"
  /\ Catch(h)
  /\ NoBroadcast
  /\ UNCHANGED <<conn, nextId, resets, restarts, events, dec, val>>

\* line 406, then the test of line 409 and, with tool calls, lines 430-447 and
\* executeTools up to its loop
SaveStream(h) ==
  /\ gate = h
  /\ loop[h].pc = "saveStream"
  /\ stored' = saveMessages(messages, stored)
  /\ LET l == loop[h]
         i == FindIndex(messages, l.msgId)
     IN IF l.toolUses = <<>>
          THEN loop' = [loop EXCEPT ![h].pc = "bcastFinal", ![h].stop = "none",
                                    ![h].text = <<>>, ![h].midx = 0]
          ELSE loop' = [loop EXCEPT
                 ![h].stop = "none",
                 ![h].hist = Append(l.hist, [role |-> "assistant",
                                             content |-> assistantContent(l.text, l.toolUses)]),
                 ![h].results = <<>>,
                 ![h].midx = i,
                 ![h].ti = IF i = 0 THEN 0 ELSE 1,
                 ![h].pc = IF i = 0 THEN "saveTools" ELSE "toolStart"]
  /\ NoBroadcast
  /\ UNCHANGED <<messages, conn, gate, nextId, resets, restarts, events, faults, dec, val>>

\* a `complete` event without the totalIterations key
FinalFrameNoTotal(id, c, it) == CompleteFrame(id, c, 0, 0)

\* the event sent when a round had no tool call (lines 416-421)
FinalFrame(id, c, it) == CompleteFrame(id, c, 0, it)

\* lines 414-424: the round had no tool call
BcastFinal(h) ==
  /\ gate = h
  /\ loop[h].pc = "bcastFinal"
  /\ LET i == FindIndex(messages, loop[h].msgId) IN
     IF i # 0
       THEN DoBroadcast(FinalFrame(loop[h].msgId, messages[i].content, loop[h].iter))
       ELSE NoBroadcast
  /\ loop' = [loop EXCEPT ![h] = Done(loop[h])]
  /\ gate' = 0
  /\ UNCHANGED <<messages, stored, conn, nextId, resets, restarts, events, faults, dec, val>>


\* ------------------------------------------------------------ executeTools
\* lines 290-310: push the running block, broadcast it, call the tool
ToolStart(h) ==
  /\ gate = h
  /\ loop[h].pc = "toolStart"
  /\ LET l == loop[h]
         tu == l.toolUses[l.ti]
     IN IF l.midx <= Len(messages)
          THEN LET c == Append(messages[l.midx].content, ToolBlock(tu)) IN
               /\ messages' = SetContent(messages, l.midx, c)
               /\ UNCHANGED stored
               /\ DoBroadcast(UpdateFrame(l.msgId, c, l.iter))
               /\ loop' = [loop EXCEPT ![h].pc = "toolRun"]
               /\ gate' = IF ToolAwaitsTimer(tu.name) THEN 0 ELSE h
          \* this.messages[messageIndex] is undefined: the TypeError of line
          \* 299 leaves executeTools and reaches getAIResponse's catch
          ELSE /\ Catch(h)
               /\ NoBroadcast
  /\ UNCHANGED <<conn, nextId, resets, restarts, events, faults, dec, val>>

\* lines 310-358: the tool returned or threw; resolve its block, broadcast,
\* push its tool_result, go to the next tool call or return
ToolEnd(h) ==
  /\ gate \in {0, h}
  /\ loop[h].pc = "toolRun"
  /\ LET l == loop[h]
         tu == l.toolUses[l.ti]
         r == executeTool(tu.name, tu.input)
     IN IF l.midx <= Len(messages)
          THEN LET c == resolveToolUse(messages[l.midx].content, tu.id, r) IN
               /\ messages' = SetContent(messages, l.midx, c)
               /\ UNCHANGED stored
               /\ DoBroadcast(UpdateFrame(l.msgId, c, l.iter))
               /\ loop' = [loop EXCEPT
                      ![h].results = Append(l.results, ToolResult(tu.id, resultContent(r))),
                      ![h].ti = IF l.ti < Len(l.toolUses) THEN l.ti + 1 ELSE 0,
                      ![h].pc = IF l.ti < Len(l.toolUses) THEN "toolStart" ELSE "saveTools"]
               /\ gate' = h
          \* this.messages[messageIndex] is undefined: the TypeError of line
          \* 313 is caught at line 334, line 338 throws it again, and that one
          \* leaves executeTools and reaches getAIResponse's catch
          ELSE /\ Catch(h)
               /\ NoBroadcast
  /\ UNCHANGED <<conn, nextId, resets, restarts, events, faults, dec, val>>

\* line 453
SaveTools(h) ==
  /\ gate = h
  /\ loop[h].pc = "saveTools"
  /\ stored' = saveMessages(messages, stored)
  /\ loop' = [loop EXCEPT ![h].pc = "bcastRound"]
  /\ NoBroadcast
  /\ UNCHANGED <<messages, conn, gate, nextId, resets, restarts, events, faults, dec, val>>

\* the event that closes a round with tool calls (lines 456-461)
RoundFrame(id, c, it) == CompleteFrame(id, c, it, 0)

\* lines 454-469 and the loop header: broadcast the round, add the tool
\* results to the history, send the next model request or leave the loop
BcastRound(h) ==
  /\ gate = h
  /\ loop[h].pc = "bcastRound"
  /\ LET l == loop[h]
         i == FindIndex(messages, l.msgId)
         hist2 == Append(l.hist, [role |-> "user", content |-> l.results])
     IN /\ IF i # 0 THEN DoBroadcast(RoundFrame(l.msgId, messages[i].content, l.iter))
                    ELSE NoBroadcast
        /\ IF l.iter < MAX_ITERATIONS
             THEN /\ loop' = [loop EXCEPT ![h].pc = "fetch", ![h].hist = hist2,
                                          ![h].iter = l.iter + 1, ![h].reqs = l.reqs + 1,
                                          ![h].text = <<>>, ![h].toolUses = <<>>,
                                          ![h].results = <<>>, ![h].midx = 0]
                  /\ gate' = 0
             ELSE /\ loop' = [loop EXCEPT ![h].pc = "saveExhaust", ![h].hist = hist2,
                                          ![h].text = <<>>, ![h].toolUses = <<>>,
                                          ![h].results = <<>>, ![h].midx = 0]
                  /\ gate' = h
  /\ UNCHANGED <<messages, stored, conn, nextId, resets, restarts, events, faults, dec, val>>

\* line 472
SaveExhaust(h) ==
  /\ gate = h
  /\ loop[h].pc = "saveExhaust"
  /\ stored' = saveMessages(messages, stored)
  /\ loop' = [loop EXCEPT ![h].pc = "bcastExhaust"]
  /\ NoBroadcast
  /\ UNCHANGED <<messages, conn, gate, nextId, resets, restarts, events, faults, dec, val>>

\* the event sent when the loop leaves at the ceiling (lines 476-480)
ExhaustFrame(id, c, it) == CompleteFrame(id, c, 0, 0)

\* lines 474-481
BcastExhaust(h) ==
  /\ gate = h
  /\ loop[h].pc = "bcastExhaust"
  /\ LET i == FindIndex(messages, loop[h].msgId) IN
     IF i # 0 THEN DoBroadcast(ExhaustFrame(loop[h].msgId, messages[i].content, loop[h].iter))
              ELSE NoBroadcast
  /\ loop' = [loop EXCEPT ![h] = Done(loop[h])]
  /\ gate' = 0
  /\ UNCHANGED <<messages, stored, conn, nextId, resets, restarts, events, faults, dec, val>>

\* lines 495-500
BcastError(h) ==
  /\ gate = h
  /\ loop[h].pc = "bcastError"
  /\ LET i == FindIndex(messages, loop[h].msgId) IN
     DoBroadcast(ErrorFrame(loop[h].msgId, messages[i].content))
  /\ loop' = [loop EXCEPT ![h] = Done(loop[h])]
  /\ gate' = 0
  /\ UNCHANGED <<messages, stored, conn, nextId, resets, restarts, events, faults, dec, val>>

\* --------------------------------------------- webSocketMessage, type "reset"
\* page.tsx handleReset (the button shows with a non-empty view and is
\* disabled while isLoading), then ChatRoom.ts:119-120
\* a reset that keeps the first message of the log
clearedKeepsFirst(msgs) == SubSeq(msgs, 1, 1)

\* line 119: this.messages = []
cleared(msgs) == <<>>

RecvReset(v) ==
  /\ gate = 0
  /\ conn[v] = "open"
  /\ view[v] # <<>>
  /\ ~isLoading[v]
  /\ resets < MaxResets
  /\ Spent < MaxInputs
  /\ resets' = resets + 1
  /\ messages' = cleared(messages)
  /\ stored' = saveMessages(messages', stored)
  /\ gate' = ResetGate
  /\ NoBroadcast
  /\ UNCHANGED <<conn, loop, nextId, restarts, events, faults, dec, val>>

\* ChatRoom.ts:123-125
BcastReset ==
  /\ gate = ResetGate
  /\ DoBroadcast(ResetFrame)
  /\ gate' = 0
  /\ UNCHANGED <<messages, stored, conn, loop, nextId, resets, restarts, events, faults, dec, val>>

\* ------------------------------------- the stream decoder, byte by byte
\* the streams the model may send: up to MaxSegments pieces
Streams == UNION {[1..n -> SegmentNames] : n \in 0..MaxSegments}

\* a model call has answered with stream segs; the message is empty
DecStart(segs) ==
  [phase |-> "stream", segs |-> segs, bytes |-> EncodeLines(SegmentsLines(segs)),
   pos |-> 0, cut |-> FALSE, st |-> DecoderStart(<<>>), results |-> <<>>]

InitDecoder == InitSession /\ dec \in {DecStart(segs) : segs \in Streams} /\ val = NoVal

\* lines 199-274: reader.read() returns the next n bytes of the stream
Read(n) ==
  /\ dec.phase = "stream"
  /\ dec.pos < Len(dec.bytes)
  /\ LET to == IF dec.pos + n <= Len(dec.bytes) THEN dec.pos + n ELSE Len(dec.bytes)
         st2 == onChunk(dec.st, SubSeq(dec.bytes, dec.pos + 1, to))
     IN dec' = [dec EXCEPT !.pos = to, !.st = st2,
                           !.cut = @ \/ st2.buffer # <<>> \/ st2.pending # NoByte]
  /\ UNCHANGED <<sessionVars, val>>

\* lines 199-200 and 277: reader.read() reports done, the call returns
ReadDone ==
  /\ dec.phase = "stream"
  /\ dec.pos = Len(dec.bytes)
  /\ dec' = [dec EXCEPT !.phase = "act"]
  /\ UNCHANGED <<sessionVars, val>>

\* line 450: the tool calls the stream left are executed
ExecuteTools ==
  /\ dec.phase = "act"
  /\ LET r == executeAll(dec.st.content, dec.st.toolUses, <<>>) IN
     dec' = [dec EXCEPT !.phase = "done", !.st.content = r.content, !.results = r.results]
  /\ UNCHANGED <<sessionVars, val>>

NextDecoder ==
  \/ \E n \in 1..MaxChunk : Read(n)
  \/ ReadDone
  \/ ExecuteTools

SpecDecoder == InitDecoder /\ [][NextDecoder]_vars

\* ------------------------------------------- one call of validate_sum
\* the inputs of the call: the operands, the sum it is asked to confirm,
\* and whether the caller passes a callback
ValInputs ==
  [a : 0..MaxOperand, b : 0..MaxOperand, expected_result : 0..(2 * MaxOperand)]

ValStart(input, cb) ==
  [pc |-> "called", input |-> input, cb |-> cb, subTasks |-> <<>>, i |-> 0,
   reported |-> <<>>, result |-> NoResult]

InitValidate ==
  /\ InitSession
  /\ dec = NoDec
  /\ val \in {ValStart(input, cb) : input \in ValInputs, cb \in BOOLEAN}

\* tools.ts:102-129: up to the first timer: report all pending, mark step 1
\* running, report, wait
ValBegin ==
  /\ val.pc = "called"
  /\ LET s0 == initialSubTasks
         r0 == onProgress(val.reported, val.cb, s0)
         s1 == markRunning(s0, 1)
     IN val' = [val EXCEPT !.pc = "timer", !.i = 1, !.subTasks = s1,
                           !.reported = onProgress(r0, val.cb, s1)]
  /\ UNCHANGED <<sessionVars, dec>>

\* tools.ts:129-150: the timer of step i fires: mark it complete, report;
\* then either mark the next step running, report and wait, or return the
\* verdict
ValTimer ==
  /\ val.pc = "timer"
  /\ LET s1 == markComplete(val.subTasks, val.i)
         r1 == onProgress(val.reported, val.cb, s1)
     IN IF val.i < Len(val.subTasks)
          THEN LET s2 == markRunning(s1, val.i + 1) IN
               val' = [val EXCEPT !.i = val.i + 1, !.subTasks = s2,
                                  !.reported = onProgress(r1, val.cb, s2)]
          ELSE val' = [val EXCEPT !.pc = "returned", !.subTasks = s1, !.reported = r1,
                                  !.result = validateSumExecute(val.input).val]
  /\ UNCHANGED <<sessionVars, dec>>

NextValidate == ValBegin \/ ValTimer

SpecValidate == InitValidate /\ [][NextValidate]_vars

\* ------------------------------------------------------------ specification
Next ==
  \/ \E v \in Viewers : Attach(v)
  \/ \E v \in Viewers : Die(v)
  \/ \E v \in Viewers : webSocketClose(v)
  \/ Restart
  \/ \E v \in Viewers, h \in Handlers : RecvMessage(v, h)
  \/ \E v \in Viewers : RecvReset(v)
  \/ \E v \in Viewers, k \in BadFrames : RecvBadFrame(v, k)
  \/ BcastReset
  \/ \E h \in Handlers :
       \/ BcastUser(h)
       \/ Placeholder(h)
       \/ BcastPlaceholder(h)
       \/ FetchOk(h)
       \/ FetchFail(h)
       \/ StreamText(h)
       \/ \E tu \in ToolCalls : StreamTool(h, tu)
       \/ StreamBadTool(h)
       \/ \E r \in StopReasons : StreamDone(h, r)
       \/ ReadFail(h)
       \/ SaveStream(h)
       \/ BcastFinal(h)
       \/ ToolStart(h)
       \/ ToolEnd(h)
       \/ SaveTools(h)
       \/ BcastRound(h)
       \/ SaveExhaust(h)
       \/ BcastExhaust(h)
       \/ BcastError(h)

Spec == Init /\ [][Next]_vars


\* a step of handler h that needs no input: its own code running on, the
\* model answering and ending its stream, the tool returning or throwing
Progress(h) ==
  \/ BcastUser(h) \/ Placeholder(h) \/ BcastPlaceholder(h)
  \/ FetchOk(h)
  \/ \E r \in StopReasons : StreamDone(h, r)
  \/ SaveStream(h) \/ BcastFinal(h)
  \/ ToolStart(h) \/ ToolEnd(h) \/ SaveTools(h) \/ BcastRound(h)
  \/ SaveExhaust(h) \/ BcastExhaust(h) \/ BcastError(h)

\* a handler that can run does run; every model call is answered, every
\* stream ends and every tool call returns or throws
Fairness == WF_vars(BcastReset) /\ \A h \in Handlers : WF_vars(Progress(h))

LiveSpec == Spec /\ Fairness

\* ------------------------------------------------------------------ claims
\* handler h is inside getAIResponse
InLoop(h) ==
  loop[h].pc \in {"fetch", "stream", "saveStream", "bcastFinal", "toolStart", "toolRun",
                  "saveTools", "bcastRound", "saveExhaust", "bcastExhaust", "bcastError"}

\* handler h is in the Act phase of a round (executeTools up to the round's event)
InAct(h) == loop[h].pc \in {"toolStart", "toolRun", "saveTools", "bcastRound"}

\* C1: at most one agent loop (getAIResponse invocation) is in progress in
\* the session at any time.
C1_OneLoopAtATime == Cardinality({h \in Handlers : InLoop(h)}) <= 1

\* C2: a round with no parsed tool call ends the loop with a `complete` event
\* for the turn's message, whatever the stop reason; a round with at least one
\* tool call is followed by another round unless the ceiling is reached.
C2_TerminationRule ==
  [][\A h \in Handlers :
       /\ (loop[h].pc = "saveStream" /\ loop[h].toolUses = <<>>)
            => loop'[h].pc = "bcastFinal"
       /\ (loop[h].pc = "bcastFinal" /\ loop'[h].pc # "bcastFinal")
            => /\ loop'[h].pc = "done"
               /\ lastFrame'.f.type = "complete"
               /\ lastFrame'.f.messageId = loop[h].msgId
       /\ (loop[h].pc = "saveStream" /\ loop[h].toolUses # <<>>)
            => InAct(h)'
       /\ (InAct(h) /\ loop[h].iter < MAX_ITERATIONS)
            => (InAct(h)' \/ (loop'[h].pc = "fetch" /\ loop'[h].iter = loop[h].iter + 1))
    ]_vars

\* C3: with a tool call in every round the loop makes exactly N model
\* requests, and the final `complete` event reports totalIterations = N.
C3_ExhaustionReportsN ==
  [][\A h \in Handlers :
       (loop[h].pc = "bcastExhaust" /\ loop'[h].pc = "done" /\ lastFrame'.f.type = "complete")
         => /\ loop[h].reqs = MAX_ITERATIONS
            /\ lastFrame'.f.messageId = loop[h].msgId
            /\ lastFrame'.f.totalIterations = MAX_ITERATIONS
    ]_vars


\* the step is handler h's model call failing
FetchFails(h) == loop[h].pc = "fetch" /\ faults' # faults /\ loop'[h] # loop[h]

C5_ToolFailureRecoverable ==
  [][\A h \in Handlers :
       LET l == loop[h] IN
       /\ (l.pc = "toolRun" /\ loop'[h] # l
             /\ ~executeTool(l.toolUses[l.ti].name, l.toolUses[l.ti].input).ok)
            => /\ Len(loop'[h].results) = Len(l.results) + 1
               /\ loop'[h].results[Len(l.results) + 1].tool_use_id = l.toolUses[l.ti].id
               /\ loop'[h].results[Len(l.results) + 1].content # <<>>
               /\ IF l.ti < Len(l.toolUses)
                    THEN loop'[h].pc = "toolStart" /\ loop'[h].ti = l.ti + 1
                    ELSE loop'[h].pc = "saveTools"
       /\ (l.pc = "toolStart" /\ loop'[h] # l) => loop'[h].pc = "toolRun"
       /\ (l.pc = "bcastRound" /\ loop'[h] # l)
            => /\ loop'[h].hist = Append(l.hist, [role |-> "user", content |-> l.results])
               /\ l.iter < MAX_ITERATIONS => loop'[h].pc = "fetch"
    ]_vars

\* the messages a frame shows
FrameMessages(f) ==
  IF f.type = "init" THEN f.messages
  ELSE IF f.type = "message" THEN <<f.message>>
  ELSE IF f.type \in {"update", "complete", "error"} /\ f # ProcessErrorFrame
    THEN <<Message(f.messageId, "assistant", f.content)>>
  ELSE <<>>

ToolBlocksOf(content) == {content[i] : i \in {j \in 1..Len(content) : content[j].type = "tool_use"}}

\* the stored log holds message m with every tool-use block (and status) of m
StoredHolds(m) ==
  \E i \in 1..Len(stored) :
    /\ stored[i].id = m.id
    /\ ToolBlocksOf(m.content) \subseteq ToolBlocksOf(stored[i].content)

\* C6 as claimed: when a frame is sent, the stored log already holds every
\* message and every tool-use block (with its status) the frame shows, and
\* is empty when the frame is a reset.
C6_PersistBeforeBroadcast ==
  lastFrame.f.type # "none"
    => /\ \A m \in Range(FrameMessages(lastFrame.f)) : StoredHolds(m)
       /\ lastFrame.f.type = "reset" => stored = <<>>

\* C6 as amended: when a message, complete, error or reset frame is sent, the
\* log has been written: the stored log equals the in-memory log and holds
\* what the frame shows, text included.
C6_PersistBeforeDurableFrames ==
  (IsBroadcast(lastFrame.f) /\ lastFrame.f.type # "update")
    => /\ stored = messages
       /\ lastFrame.f.type = "message"
            => \E i \in 1..Len(stored) : stored[i] = lastFrame.f.message
       /\ lastFrame.f.type \in {"complete", "error"}
            => /\ FindIndex(stored, lastFrame.f.messageId) # 0
               /\ stored[FindIndex(stored, lastFrame.f.messageId)].content = lastFrame.f.content
       /\ lastFrame.f.type = "reset" => stored = <<>>

\* a `complete` frame showing a resolved tool-use block has just been sent to
\* a viewer
C6_Witness ==
  /\ lastFrame.f.type = "complete"
  /\ lastFrame.to # {}
  /\ \E b \in ToolBlocksOf(lastFrame.f.content) : b.status = "complete"


\* C7: whenever no handler is in progress the stored record equals the
\* in-memory log; a restart restores that record before anything is served,
\* so the log after the restart, and the init payload of a viewer attaching
\* then, equal the log before the restart.
C7_StorageRoundTrip ==
  [][/\ Idle' => stored' = messages'
     /\ restarts' # restarts => (messages' = messages /\ Idle')
     /\ \A v \in Viewers :
          (conn[v] = "none" /\ conn'[v] = "open")
            => (lastFrame'.f = InitFrame(messages) /\ lastFrame'.to = {v} /\ view'[v] = messages)
    ]_vars

Open == {v \in Viewers : conn[v] = "open"}

\* C8: after every frame the session sends, the copy of the log of every
\* viewer with an open socket equals the session's in-memory log.
C8_ViewersMatchLog ==
  lastFrame.f.type # "none" =>
    \A v \in Open : (lastFrame.f.type = "init" => v \in lastFrame.to) => view[v] = messages

\* C9: the first frame a viewer receives is the init frame with the whole
\* log, no other frame reaches a viewer before its init, and from the attach
\* on the viewer receives every broadcast.
C9_InitThenEveryBroadcast ==
  [][/\ \A v \in Viewers :
          (conn[v] = "none" /\ conn'[v] = "open")
            => (lastFrame'.f = InitFrame(messages) /\ lastFrame'.to = {v})
     /\ IsBroadcast(lastFrame'.f)
          => (lastFrame'.to \subseteq Open /\ Open \subseteq lastFrame'.to)
    ]_vars

\* the pc a handler has after the step in which it broadcasts at pc p
AfterBroadcast(p) ==
  CASE p = "bcastUser" -> {"placeholder"}
    [] p = "bcastPh" -> {"fetch"}
    [] p = "stream" -> {"stream"}
    [] p = "toolStart" -> {"toolRun"}
    [] p = "toolRun" -> {"toolStart", "saveTools"}
    [] p = "bcastRound" -> {"fetch", "saveExhaust"}
    [] p \in {"bcastFinal", "bcastExhaust", "bcastError"} -> {"done"}
    [] OTHER -> {}

\* C10: in every broadcast the sessions whose send fails are removed from the
\* Set, every other session of the Set receives the frame, and the handler
\* that broadcasts goes on as it does when no send fails.
C10_BroadcastToleratesFailure ==
  [][IsBroadcast(lastFrame'.f)
       => /\ lastFrame'.before = sessions
          /\ lastFrame'.to = {v \in Range(sessions) : conn[v] = "open"}
          /\ Range(sessions') = lastFrame'.to
          /\ \A h \in Handlers :
               loop'[h] # loop[h] => loop'[h].pc \in AfterBroadcast(loop[h].pc)
    ]_vars

\* a frame has just been broadcast to a Set in which one session's send
\* failed and another session received the frame
C10_Witness ==
  /\ IsBroadcast(lastFrame.f)
  /\ lastFrame.to # {}
  /\ \E v \in Range(lastFrame.before) : v \notin lastFrame.to /\ v \notin Range(sessions)

\* C11: a `reset` frame empties the in-memory log and writes the empty log to
\* storage before anything is sent; then a `reset` frame goes to every
\* attached viewer (the sender is one of them), whose copy becomes empty; a
\* viewer attaching right after gets an init with no messages.
C11_ResetClearsAndNotifies ==
  [][/\ resets' # resets
          => (messages' = <<>> /\ stored' = <<>> /\ lastFrame' = NoFrame /\ gate' = ResetGate)
     /\ gate = ResetGate
          => /\ lastFrame'.f = ResetFrame
             /\ Open \subseteq lastFrame'.to
             /\ \A v \in Open : view'[v] = <<>>
             /\ messages' = <<>> /\ stored' = <<>>
     /\ \A v \in Viewers :
          (lastFrame.f.type = "reset" /\ conn[v] = "none" /\ conn'[v] = "open")
            => (lastFrame'.f = InitFrame(<<>>) /\ view'[v] = <<>>)
    ]_vars

\* C12: one `message` frame is handled as: append the user message and save;
\* broadcast it; append the empty assistant placeholder and save; broadcast
\* it; start the loop.  Every attached viewer receives both `message` frames,
\* and an update, complete or error for the placeholder's id is sent only
\* after the placeholder's frame, by the loop started for it.
C12_MessageFrameOrder ==
  [][/\ \A h \in Handlers :
          LET l == loop[h] IN
          /\ (l.pc = "unused" /\ loop'[h] # l)
               => /\ loop'[h].pc = "bcastUser"
                  /\ messages' = Append(messages, Message(nextId, "user", <<TextBlock(UserText)>>))
                  /\ stored' = messages'
                  /\ lastFrame' = NoFrame
          /\ (l.pc = "bcastUser" /\ loop'[h] # l)
               => /\ loop'[h].pc = "placeholder"
                  /\ lastFrame'.f = MessageFrame(messages[Len(messages)])
                  /\ messages[Len(messages)].role = "user"
                  /\ Open \subseteq lastFrame'.to
                  /\ UNCHANGED <<messages, stored>>
          /\ (l.pc = "placeholder" /\ loop'[h] # l)
               => /\ loop'[h].pc = "bcastPh"
                  /\ messages' = Append(messages, Message(loop'[h].msgId, "assistant", <<>>))
                  /\ FindIndex(messages, loop'[h].msgId) = 0
                  /\ stored' = messages'
                  /\ lastFrame' = NoFrame
          /\ (l.pc = "bcastPh" /\ loop'[h] # l)
               => /\ loop'[h].pc = "fetch" /\ loop'[h].iter = 1
                  /\ lastFrame'.f = MessageFrame(Message(l.msgId, "assistant", <<>>))
                  /\ Open \subseteq lastFrame'.to
                  /\ UNCHANGED <<messages, stored>>
     /\ (lastFrame'.f.type \in {"update", "complete", "error"} /\ IsBroadcast(lastFrame'.f))
          => \E h \in Handlers : InLoop(h) /\ loop[h].msgId = lastFrame'.f.messageId
    ]_vars

\* the validate_sum call that checks calculator call tu
FollowUp(tu) == [a |-> tu.input.a, b |-> tu.input.b, expected_result |-> tu.input.a + tu.input.b]

\* C16: when the model requests calculator{add, a, b}, the round also runs
\* validate_sum{a, b, expected_result: a+b} without the model requesting it,
\* and at the end of the round both tool-use blocks have status complete.
C16_AutoFollowUp ==
  \A h \in Handlers :
    LET l == loop[h]
        i == FindIndex(messages, l.msgId)
    IN (l.pc = "bcastRound" /\ i # 0 /\ i = l.midx)
         => \A k \in 1..Len(l.toolUses) :
              LET tu == l.toolUses[k] IN
              (tu.name = "calculator" /\ tu.input.operation = "add")
                => /\ \E b \in ToolBlocksOf(messages[i].content) :
                        b.id = tu.id /\ b.status = "complete"
                   /\ \E b \in ToolBlocksOf(messages[i].content) :
                        b.name = "validate_sum" /\ b.input = FollowUp(tu) /\ b.status = "complete"

\* C17: when a turn ends with a round without tool call, the `complete`
\* event's totalIterations is the number of model requests made in the turn,
\* which is the index of that round.
C17_TotalIterationsIsRound ==
  [][\A h \in Handlers :
       (loop[h].pc = "bcastFinal" /\ loop'[h] # loop[h] /\ lastFrame'.f.type = "complete")
         => /\ lastFrame'.f.messageId = loop[h].msgId
            /\ lastFrame'.f.totalIterations = loop[h].reqs
            /\ lastFrame'.f.totalIterations = loop[h].iter
            /\ loop[h].reqs \in 1..MAX_ITERATIONS
            /\ loop'[h].pc = "done"
    ]_vars

\* a viewer has just received the `complete` event of a turn that ended in
\* its second round
C17_Witness ==
  /\ lastFrame.f.type = "complete"
  /\ lastFrame.f.totalIterations = 2
  /\ lastFrame.to # {}

\* C18: every update, complete and error event carries the whole current
\* content of the message of the log whose id is the event's messageId;
\* applying the event twice leaves a viewer as applying it once.
C18_FullContentOfThatMessage ==
  (lastFrame.f.type \in {"update", "complete", "error"} /\ IsBroadcast(lastFrame.f))
    => /\ FindIndex(messages, lastFrame.f.messageId) # 0
       /\ messages[FindIndex(messages, lastFrame.f.messageId)].content = lastFrame.f.content
       /\ \A v \in Viewers :
            onmessage(onmessage(view[v], lastFrame.f), lastFrame.f) = onmessage(view[v], lastFrame.f)

\* C19: the `complete` event of a turn is sent once the turn's loop has
\* terminated: the step that sends it ends the loop, so it is sent once and
\* no update for its message follows.
C19_CompleteIsFinal ==
  [][lastFrame'.f.type = "complete"
       => \A h \in Handlers :
            (InLoop(h) /\ loop[h].msgId = lastFrame'.f.messageId) => loop'[h].pc = "done"
    ]_vars

\* what one call of the decoder yields: the text deltas, the collected tool
\* calls, the stop reason, the update events and the content of the message
Outputs(st) ==
  [deltas |-> st.textContent, toolUses |-> st.toolUses, stopReason |-> st.stopReason,
   updates |-> st.updates, content |-> st.content]

\* C13: however the bytes of the stream are cut into chunks, also inside a
\* line or inside a character, the decoder yields what it yields when the
\* same bytes arrive as one chunk: the same text deltas, tool calls, stop
\* reason, update events and content.
C13_ChunkBoundaryInvariance ==
  dec.phase \in {"stream", "act"}
    => Outputs(dec.st) = Outputs(onChunk(DecoderStart(<<>>), SubSeq(dec.bytes, 1, dec.pos)))

\* a stream with a text delta, a tool call and a stop line has been decoded
\* from chunks of which one ended inside a line
C13_Witness ==
  /\ dec.phase = "act"
  /\ dec.cut
  /\ dec.st.updates # <<>>
  /\ dec.st.toolUses # <<>>
  /\ dec.st.stopReason # "null"

BlockKinds(content) == [i \in 1..Len(content) |-> content[i].type]

\* the kinds of the blocks the model produced, in the order of the stream:
\* consecutive text deltas are one text block, a tool call whose input
\* parses is a tool_use block
RECURSIVE Produced(_, _)
Produced(segs, acc) ==
  IF segs = <<>> THEN acc
  ELSE IF Head(segs) \in {"text1", "text2"}
    THEN IF acc # <<>> /\ acc[Len(acc)] = "text" THEN Produced(Tail(segs), acc)
                                                 ELSE Produced(Tail(segs), Append(acc, "text"))
  ELSE IF Head(segs) \in {"toolGood", "toolBad"}
    THEN Produced(Tail(segs), Append(acc, "tool_use"))
  ELSE Produced(Tail(segs), acc)

\* C14: "Hi" then " there" on an empty message give one text block
\* "Hi there"; with a tool call between the two deltas the content is
\* [Text "Hi", ToolUse, Text " there"]; in general the blocks of the content
\* are in the order in which they were produced.
C14_ContentInProductionOrder ==
  dec.phase = "done"
    => /\ dec.segs = <<"text1", "text2">>
            => dec.st.content = <<TextBlock(<<"Hi", " there">>)>>
       /\ dec.segs = <<"text1", "toolGood", "text2">>
            => /\ BlockKinds(dec.st.content) = <<"text", "tool_use", "text">>
               /\ dec.st.content[1].text = <<"Hi">>
               /\ dec.st.content[3].text = <<" there">>
       /\ BlockKinds(dec.st.content) = Produced(dec.segs, <<>>)

\* the tool calls of the stream whose input fragments form a JSON value
RECURSIVE GoodCalls(_)
GoodCalls(segs) ==
  IF segs = <<>> THEN <<>>
  ELSE (IF Head(segs) \in {"toolGood", "toolBad"}
          THEN <<[id |-> "t1", name |-> "calculator",
                  input |-> [operation |-> "add", a |-> 7, b |-> 5]]>>
          ELSE <<>>) \o GoodCalls(Tail(segs))

RECURSIVE ToolBlockIds(_)
ToolBlockIds(content) ==
  IF content = <<>> THEN <<>>
  ELSE (IF Head(content).type = "tool_use" THEN <<Head(content).id>> ELSE <<>>)
         \o ToolBlockIds(Tail(content))

\* C15: the input fragments of a tool call are concatenated in arrival order
\* and parsed at the end of the call; a call whose input does not parse is
\* dropped: it is not among the collected calls, it gets no tool-use block
\* and no tool_result, and the calls before and after it are collected,
\* executed and answered as if it were absent.
C15_BadToolInputDiscarded ==
  /\ (dec.phase = "stream" /\ dec.st.currentToolUse # NoToolUse)
       => dec.st.toolInput \in {<<>>, <<"F1">>, <<"F1", "F2">>}
  /\ dec.phase = "stream"
       => \E k \in 0..Len(GoodCalls(dec.segs)) :
            dec.st.toolUses = SubSeq(GoodCalls(dec.segs), 1, k)
  /\ dec.phase \in {"act", "done"} => dec.st.toolUses = GoodCalls(dec.segs)
  /\ dec.phase = "done"
       => /\ ToolBlockIds(dec.st.content) = [i \in 1..Len(dec.st.toolUses) |-> dec.st.toolUses[i].id]
          /\ Len(dec.results) = Len(dec.st.toolUses)
          /\ \A i \in 1..Len(dec.results) :
               /\ dec.results[i].tool_use_id = dec.st.toolUses[i].id
               /\ dec.results[i].content = <<"The result of", 7, "add", 5, "is", 12>>

\* a stream with a tool call whose input is cut short, followed by one whose
\* input is whole, has been decoded and its tool calls executed
C15_Witness ==
  /\ dec.phase = "done"
  /\ \E i, j \in 1..Len(dec.segs) : i < j /\ dec.segs[i] = "toolCut" /\ dec.segs[j] = "toolGood"
  /\ Len(dec.results) = 1

\* the loop of handler h has ended and the step that ended it broadcast a
\* complete or error event for the turn's assistant message
TerminalEvent(h) ==
  /\ loop[h].pc = "done"
  /\ lastFrame.f.type \in {"complete", "error"}
  /\ lastFrame.f.messageId = loop[h].msgId

\* C20: for every `message` frame the session accepts, the loop makes at
\* most N rounds and ends, and a complete or error event for the turn's
\* assistant message is broadcast: no round goes beyond N, the step that ends
\* the loop broadcasts the terminal event, and that step is eventually taken.
C20_TurnEndsWithTerminalEvent ==
  /\ [](\A h \in Handlers : loop[h].iter <= MAX_ITERATIONS /\ loop[h].reqs <= MAX_ITERATIONS)
  /\ [][\A h \in Handlers : (InLoop(h) /\ loop'[h].pc = "done") => TerminalEvent(h)']_vars
  /\ \A h \in Handlers : (loop[h].pc = "bcastUser") ~> TerminalEvent(h)

\* the step is the tool call of handler h returning or throwing
ToolReturns(h) == loop[h].pc = "toolRun" /\ loop'[h] # loop[h]

\* the tool call handler h is waiting for
CurrentCall(h) == loop[h].toolUses[loop[h].ti]

\* C21: when the tool-use id to resolve is not in the turn's message (the
\* message is gone, or it has no block with that id), resolving changes no
\* block of any message and raises no exception: executeTools goes on to
\* record the call's tool_result.
C21_ResolveUnknownIdIsNoOp ==
  [][\A h \in Handlers :
       LET i == FindIndex(messages, loop[h].msgId) IN
       (ToolReturns(h) /\ (i = 0 \/ FindToolBlock(messages[i].content, CurrentCall(h).id) = 0))
         => /\ messages' = messages
            /\ loop'[h].pc \in {"toolStart", "saveTools"}
            /\ Len(loop'[h].results) = Len(loop[h].results) + 1
    ]_vars

\* the step is the handling of a client frame that is neither a `message` nor
\* a `reset` frame
BadFrameStep == faults' # faults /\ conn' = conn /\ loop' = loop

\* C22: a client frame that is not JSON, or whose type is neither `message`
\* nor `reset`, leaves the log, the stored record and the viewer set as they
\* are and no viewer's copy changes; at most one viewer, the sender, is sent
\* an error frame; the session then takes the next event as before.
C22_BadFrameIsIsolated ==
  [][BadFrameStep
       => /\ UNCHANGED <<messages, stored, sessions, view, nextId>>
          /\ gate' = 0
          /\ lastFrame'.f \in {NoFrame.f, ProcessErrorFrame}
          /\ lastFrame'.f = NoFrame.f => lastFrame'.to = {}
          /\ Cardinality(lastFrame'.to) <= 1
          /\ lastFrame'.to \subseteq {v \in Viewers : conn[v] = "open"}
    ]_vars

\* the sender of a frame that is not JSON has just been sent the error frame,
\* while a turn is in progress and a second viewer is attached
C22_Witness ==
  /\ lastFrame.f = ProcessErrorFrame
  /\ Cardinality(lastFrame.to) = 1
  /\ Cardinality({v \in Viewers : conn[v] = "open"}) = 2
  /\ \E h \in Handlers : InLoop(h)

\* C23: a tool-use block enters the message with status running; once its
\* status is complete or error it never changes; and when its tool call has
\* returned or thrown, no block of that call's id is still running (also
\* when two calls of the message carry the same id).
C23_ToolStatusMonotonic ==
  [][/\ \A i \in 1..Len(messages) :
          (i <= Len(messages') /\ messages'[i].id = messages[i].id)
            => LET c == messages[i].content
                   d == messages'[i].content
               IN /\ \A j \in 1..Len(c) :
                       (j <= Len(d) /\ c[j].type = "tool_use" /\ d[j].type = "tool_use"
                          /\ c[j].status \in {"complete", "error"})
                         => d[j].status = c[j].status
                  /\ \A j \in (Len(c) + 1)..Len(d) :
                       d[j].type = "tool_use" => d[j].status = "running"
     /\ \A h \in Handlers :
          (ToolReturns(h) /\ loop'[h].pc \in {"toolStart", "saveTools"})
            => \A b \in ToolBlocksOf(messages'[loop[h].midx].content) :
                 b.id = CurrentCall(h).id => b.status # "running"
    ]_vars

\* C24: after a tool call is resolved its block has status complete with the
\* tool's result string, or status error with the failure string as result:
\* the block's result is the string recorded as the call's tool_result.
C24_OutcomeAttachedToBlock ==
  [][\A h \in Handlers :
       (ToolReturns(h) /\ loop'[h].pc \in {"toolStart", "saveTools"})
         => LET c == messages'[loop[h].midx].content
                j == FindToolBlock(c, CurrentCall(h).id)
                res == loop'[h].results[Len(loop'[h].results)]
            IN /\ j # 0
               /\ res.tool_use_id = CurrentCall(h).id
               /\ c[j].status = (IF executeTool(CurrentCall(h).name, CurrentCall(h).input).ok
                                   THEN "complete" ELSE "error")
               /\ c[j].result = res.content
    ]_vars


\* the round's list of calls as section 4.4 describes it: every requested
\* call in the order requested, each calculator addition directly followed by
\* its validate_sum call
RECURSIVE WithFollowUps(_)
WithFollowUps(tus) ==
  IF tus = <<>> THEN <<>>
  ELSE LET tu == Head(tus)
           own == <<[name |-> tu.name, input |-> tu.input]>>
           inj == IF tu.name = "calculator" /\ tu.input.operation = "add"
                    THEN <<[name |-> "validate_sum", input |-> FollowUp(tu)]>>
                    ELSE <<>>
       IN own \o inj \o WithFollowUps(Tail(tus))

\* the last n blocks of a content
LastBlocks(c, n) == SubSeq(c, Len(c) - n + 1, Len(c))

\* C25: when the tool calls of a round have all been executed, the blocks
\* the round added to the message are the requested calls in the order
\* requested, each call that triggers a follow-up directly followed by the
\* injected call, and one tool_result was recorded per call of that list, in
\* the same order.
C25_InjectedCallsInListOrder ==
  \A h \in Handlers :
    LET l == loop[h]
        i == FindIndex(messages, l.msgId)
        want == WithFollowUps(l.toolUses)
    IN (l.pc = "saveTools" /\ i # 0 /\ i = l.midx /\ l.results # <<>>)
         => /\ Len(l.results) = Len(want)
            /\ Len(messages[i].content) >= Len(want)
            /\ LET blocks == LastBlocks(messages[i].content, Len(want)) IN
               \A k \in 1..Len(want) :
                 /\ blocks[k].type = "tool_use"
                 /\ blocks[k].name = want[k].name
                 /\ blocks[k].input = want[k].input
                 /\ blocks[k].id = l.results[k].tool_use_id


\* the tool_use_id of each block of a user turn of tool results, in order
RECURSIVE ResultIds(_)
ResultIds(content) ==
  IF content = <<>> THEN <<>> ELSE <<Head(content).tool_use_id>> \o ResultIds(Tail(content))

Carried(id) == {i \in 1..Len(messages) : messages[i].id # id /\ messages[i].content # <<>>}

\* C27: the history of the first model request of a turn holds, in log
\* order, role and content of every message of the log except the turn's own
\* placeholder and the messages whose content is empty, and nothing else.
C27_FirstHistoryIsFilteredLog ==
  [][\A h \in Handlers :
       (loop[h].pc = "bcastPh" /\ loop'[h].pc = "fetch")
         => LET H == loop'[h].hist
                idx == Carried(loop[h].msgId)
            IN /\ loop'[h].iter = 1
               /\ messages' = messages
               /\ Len(H) = Cardinality(idx)
               /\ \A i \in idx :
                    H[Cardinality({j \in idx : j <= i})]
                      = [role |-> messages[i].role, content |-> messages[i].content]
               /\ \A i \in 1..Len(messages) :
                    messages[i].id = loop[h].msgId => i \notin idx
    ]_vars

\* a turn is at its first model request while the log holds, besides the
\* turn's placeholder, another message without content that the history
\* leaves out, and the history carries two messages or more
C27_Witness ==
  \E h \in Handlers :
    /\ loop[h].pc = "fetch" /\ loop[h].iter = 1
    /\ Len(loop[h].hist) >= 2
    /\ \E i \in 1..Len(messages) :
         messages[i].id # loop[h].msgId /\ messages[i].content = <<>>
    /\ Len(loop[h].hist) = Cardinality(Carried(loop[h].msgId))


\* no message of msgs holds a tool_result block
NoToolResultIn(msgs) ==
  \A i \in 1..Len(msgs) :
    \A k \in 1..Len(msgs[i].content) : msgs[i].content[k].type # "tool_result"

\* C28: the log, the stored log, what each viewer shows and every frame sent
\* are free of tool_result blocks; tool results live in the history kept for
\* the model only.
C28_NoToolResultOutsideHistory ==
  /\ NoToolResultIn(messages)
  /\ NoToolResultIn(stored)
  /\ \A v \in Viewers : NoToolResultIn(view[v])
  /\ NoToolResultIn(lastFrame.f.messages)
  /\ NoToolResultIn(<<lastFrame.f.message>>)
  /\ \A k \in 1..Len(lastFrame.f.content) : lastFrame.f.content[k].type # "tool_result"

\* a round with a tool call is over: its tool_result is in the history for
\* the next model request, and the round's event with the resolved block has
\* been sent to a viewer and the block is stored
C28_Witness ==
  \E h \in Handlers :
    /\ loop[h].pc = "fetch" /\ loop[h].iter = 2
    /\ \E t \in 1..Len(loop[h].hist) :
         /\ loop[h].hist[t].role = "user"
         /\ \E k \in 1..Len(loop[h].hist[t].content) :
              loop[h].hist[t].content[k].type = "tool_result"
    /\ lastFrame.f.type = "complete" /\ lastFrame.to # {}
    /\ \E b \in ToolBlocksOf(lastFrame.f.content) : b.status = "complete"
    /\ \E i \in 1..Len(stored) : ToolBlocksOf(stored[i].content) # {}


\* position i of the log holds the same message before and after the step,
\* with another content
Rewritten(i) ==
  /\ i <= Len(messages) /\ i <= Len(messages')
  /\ messages'[i].id = messages[i].id
  /\ messages'[i].content # messages[i].content

\* C29: a step changes the content of a message only if the message is the
\* last one of the log, and the step is one of the agent loop that was
\* started for that message.
C29_EarlierMessagesImmutable ==
  [][\A i \in 1..Len(messages) :
       Rewritten(i)
         => /\ i = Len(messages)
            /\ \E h \in Handlers :
                 /\ InLoop(h)
                 /\ loop'[h] # loop[h]
                 /\ loop[h].msgId = messages[i].id
    ]_vars


\* C30: while a validate_sum call runs, its tool-use block holds a sub-task
\* sequence that is one of the snapshots the tool reports, and the last
\* update event sent for the message carries the block with that sequence.
C30_ProgressReachesBlock ==
  \A h \in Handlers :
    LET l == loop[h] IN
    (/\ l.pc = "toolRun"
     /\ CurrentCall(h).name = "validate_sum"
     /\ l.midx \in 1..Len(messages)
     /\ messages[l.midx].id = l.msgId
     /\ FindToolBlock(messages[l.midx].content, CurrentCall(h).id) # 0)
      => LET c == messages[l.midx].content
             b == c[FindToolBlock(c, CurrentCall(h).id)]
         IN /\ "subTasks" \in DOMAIN b
            /\ b.subTasks \in Range(validateSumSnapshots)
            /\ (lastFrame.f.type = "update" /\ lastFrame.f.messageId = l.msgId)
                 => lastFrame.f.content = c


\* how far a sub-task has come
Rank(status) == CASE status = "pending" -> 0 [] status = "running" -> 1
                  [] status = "complete" -> 2 [] OTHER -> 3

\* C31: every snapshot validate_sum hands to onProgress lists the four
\* sub-tasks; from one snapshot to the next no sub-task goes back or skips
\* running; no snapshot has two sub-tasks running; a sub-task has left
\* pending only if every earlier one is complete; and when the tool has
\* returned, the last snapshot has all four complete.
C31_SnapshotsAdvanceInOrder ==
  LET R == val.reported IN
  /\ \A k \in 1..Len(R) :
       /\ Len(R[k]) = 4
       /\ [j \in 1..4 |-> R[k][j].id] = SubTaskIds
       /\ \A j \in 1..4 : R[k][j].status \in {"pending", "running", "complete"}
       /\ Cardinality({j \in 1..4 : R[k][j].status = "running"}) <= 1
       /\ \A j \in 1..4 :
            R[k][j].status # "pending"
              => \A e \in 1..(j - 1) : R[k][e].status = "complete"
  /\ \A k \in 1..(Len(R) - 1) :
       \A j \in 1..4 : Rank(R[k + 1][j].status) - Rank(R[k][j].status) \in {0, 1}
  /\ (val.pc = "returned" /\ val.cb)
       => /\ R # <<>>
          /\ \A j \in 1..4 : R[Len(R)][j].status = "complete"

\* a call with a callback has returned a verdict of failure after all nine
\* snapshots
C31_Witness ==
  /\ val.pc = "returned" /\ val.cb
  /\ Len(val.reported) = 9
  /\ val.input.a + val.input.b # val.input.expected_result
  /\ val.result # NoResult
  /\ val.reported = validateSumSnapshots


\* a line of the stream as split hands it to the loop of line 206
LineChars(l) == <<[c |-> "head", l |-> l], [c |-> "tail", l |-> l]>>

\* the well-formed lines among the first n lines of the stream, as characters
WellFormedLines(ls, n) ==
  LET good == SelectSeq(SubSeq(ls, 1, n), LAMBDA l : l.kind # "malformed")
  IN [k \in 1..Len(good) |-> LineChars(good[k])]

\* the lines of the stream that have arrived completely
LinesRead == dec.pos \div Len(EncodeLine(LBad))

\* C32: whatever part of the stream has been read, in whatever chunks, the
\* content of the message, the update events sent, the text, the tool calls
\* collected, the tool call under way and the stop reason are what the same
\* lines give with the malformed lines taken out; and a malformed line does
\* not end the stream: the lines after it are read to the end.
C32_MalformedLineIsDropped ==
  dec.phase # "idle"
    => LET ls == SegmentsLines(dec.segs)
           ref == processLines(DecoderStart(<<>>), WellFormedLines(ls, LinesRead))
       IN /\ dec.phase = "stream"
               => /\ dec.st.content = ref.content
                  /\ dec.st.updates = ref.updates
                  /\ dec.st.textContent = ref.textContent
                  /\ dec.st.toolUses = ref.toolUses
                  /\ dec.st.currentToolUse = ref.currentToolUse
                  /\ dec.st.toolInput = ref.toolInput
                  /\ dec.st.stopReason = ref.stopReason
          /\ dec.phase \in {"act", "done"}
               => /\ dec.pos = Len(dec.bytes)
                  /\ dec.st.toolUses = ref.toolUses
                  /\ dec.st.stopReason = ref.stopReason
                  /\ dec.st.textContent = ref.textContent

\* a stream with a malformed line between the input fragments of a tool call
\* and text after it has been read to its end: the tool call was collected
\* and the text is in the message
C32_Witness ==
  /\ dec.phase = "act"
  /\ \E k \in 1..Len(dec.segs) : dec.segs[k] = "toolBad" /\ k < Len(dec.segs)
  /\ Len(dec.st.toolUses) = 1
  /\ dec.st.textContent # <<>>
  /\ dec.st.content # <<>>


\* the viewers whose WebSocket is open
OpenViewers == {v \in Viewers : conn[v] = "open"}

\* C33: every broadcast reaches every viewer whose WebSocket is open, also
\* after the actor object has been created anew; the broadcast of a user
\* message, whose sender has an open socket, reaches at least that viewer.
C33_BroadcastReachesOpenViewers ==
  [][/\ IsBroadcast(lastFrame'.f) => lastFrame'.to = OpenViewers
     /\ \A h \in Handlers :
          (loop[h].pc = "bcastUser" /\ loop'[h].pc = "placeholder")
            => /\ lastFrame'.f.type = "message"
               /\ lastFrame'.to # {}
    ]_vars


\* every tool_use block of turn t of history H is answered in turn t + 1
Answered(H, t) ==
  \A b \in ToolBlocksOf(H[t].content) :
    /\ t < Len(H)
    /\ H[t + 1].role = "user"
    /\ \E k \in 1..Len(H[t + 1].content) :
         /\ H[t + 1].content[k].type = "tool_result"
         /\ H[t + 1].content[k].tool_use_id = b.id

LastComplete(h) ==
  /\ loop[h].pc \in {"bcastFinal", "bcastExhaust"}
  /\ loop'[h].pc = "done"
  /\ lastFrame'.f.type = "complete"

\* C35: when the last `complete` event of a turn is sent, no tool-use block
\* of the event's content, nor of the turn's message in the log, has status
\* running.
C35_NoRunningBlockAtEnd ==
  [][\A h \in Handlers :
       LastComplete(h)
         => /\ \A b \in ToolBlocksOf(lastFrame'.f.content) : b.status \in {"complete", "error"}
            /\ \A i \in 1..Len(messages') :
                 messages'[i].id = loop[h].msgId
                   => \A b \in ToolBlocksOf(messages'[i].content) :
                        b.status \in {"complete", "error"}
    ]_vars


\* the step handles a `message` frame
HandlesMessage == \E h \in Handlers : loop[h].pc = "unused" /\ loop'[h].pc = "bcastUser"

\* the step handles a `reset` frame
HandlesReset == resets' = resets + 1

\* C36: handling a reset leaves the log and the stored log empty, and while
\* both are empty only the handling of a `message` frame makes either of
\* them non-empty: no step of an agent loop that was started before the
\* reset puts a message back into the log or into storage.
C36_LogStaysEmptyAfterReset ==
  [][/\ HandlesReset => (messages' = <<>> /\ stored' = <<>>)
     /\ (messages = <<>> /\ stored = <<>> /\ ~HandlesMessage)
          => (messages' = <<>> /\ stored' = <<>>)
    ]_vars

\* after a reset, with the log and the stored log empty, an agent loop that
\* was started before the reset has run its tool round to the end and saved
C36_Witness ==
  /\ resets = 1
  /\ messages = <<>> /\ stored = <<>>
  /\ \E h \in Handlers :
       /\ loop[h].pc = "bcastRound"
       /\ loop[h].msgId # 0
       /\ \A g \in Handlers \ {h} : loop[g].pc = "unused"


\* a turn is in progress: its user message has been taken and its agent loop
\* has not finished
TurnInProgress(h) == loop[h].pc \in {"bcastUser", "placeholder", "bcastPh"} \/ InLoop(h)

\* one viewer has been the only one connected, without interruption, and
\* every frame it sent was well formed
SingleViewer == Cardinality({v \in Viewers : conn[v] # "none"}) = 1 /\ faults = 0 /\ restarts = 0

\* C37: a viewer that is alone in the session sends a `message` frame only
\* when no turn is in progress: it never has two turns in flight.
C37_NoSecondTurnInFlight ==
  [][(HandlesMessage /\ SingleViewer) => \A h \in Handlers : ~TurnInProgress(h)]_vars

====
